---- MODULE Spec2Model ----
(***************************************************************************)
(* Model of the Firefox bookmarks/history plugin (src/__init__.py):        *)
(* the profile locator and plugin construction, the copy-and-checkpoint    *)
(* connection context, the three extractors, the index builder and the     *)
(* join-before-restart refresh thread.                                     *)
(***************************************************************************)
EXTENDS Naturals, Sequences, FiniteSets

VARIABLES
    plugin,     \* "unconstructed" | "loaded" | "failed"  (Plugin.__init__)
    env,        \* the filesystem the locator reads: root, profiles.ini
    profiles,   \* self.profiles
    profile,    \* self._current_profile_path
    flag,       \* self._index_history
    config,     \* the host's configuration store (readConfig / writeConfig)
    thread,     \* self.thread: 0 is None, else the id of the Thread object
    mainpc,     \* the main thread: "ready" | "update" (inside updateIndexItems)
    recent,     \* the kinds of the last two triggers, oldest first
    ntrig,      \* how many triggers have entered updateIndexItems
    workers,    \* the Thread objects and the locals of their task
    index,      \* the list last passed to setIndexItems
    installed,  \* which run passed it, and what that run had read
    cache,      \* the files favicon_<guid>.png in the favicons directory
    tempDirs,   \* the temporary directories that exist, by the run that made them
    openConns,  \* the sqlite connections that are open, by the run that opened them
    bIn,        \* inputs of one index build (extractor outputs and the flag)
    bOut        \* its outcome

vars == <<plugin, env, profiles, profile, flag, config, thread, mainpc, recent, ntrig,
          workers, index, installed, cache, tempDirs, openConns, bIn, bOut>>

\* ---------------------------------------------------------------- bounds

MaxRuns == 3        \* threads started in one behaviour
MaxRows == 2        \* rows of one query result in the index-builder inputs
MaxSections == 2    \* sections of profiles.ini

\* ------------------------------------------------------------ value sets

None == "None"
Guids == {"g1", "g2"}
Titles == {"", "T"}
URLs == {"u1", "u2"}
Hashes == {"h1", "h2"}
Profiles == {"pA", "pB"}

\* moz_places.url_hash is a function of the url
UrlHash(url) == IF url = "u1" THEN "h1" ELSE "h2"

Range(s) == {s[i] : i \in 1..Len(s)}

SeqsUpTo(S, n) == UNION {[1..k -> S] : k \in 0..n}

\* ----------------------------------------------------- extractor outputs

\* rows of get_bookmarks: (guid, title, url, url_hash)
BookmarkRows ==
    {[guid |-> g, title |-> t, url |-> u, url_hash |-> UrlHash(u)] :
        g \in Guids, t \in Titles, u \in URLs}

\* rows of get_history: (guid, title, url); a NULL title is None
HistoryRows == {[guid |-> "g3", title |-> None, url |-> u] : u \in URLs}

\* results of get_favicons_data: a dict url_hash -> bytes, b"" included
FaviconDicts == UNION {[D -> {"", "png"}] : D \in SUBSET Hashes}

EmptyDict == [h \in {} |-> ""]

\* ---------------------------------------------------------- index builder

\* dict.get(key): None when the key is absent
DictGet(d, k) == IF k \in DOMAIN d THEN d[k] ELSE None

\* truth value of a str / bytes / None
Truthy(v) == v # None /\ v # ""

\* text=title if title else url
ItemText(title, url) == IF Truthy(title) THEN title ELSE url

FaviconIcon(guid) == [type |-> "favicon", file |-> guid]
GlobeIcon == [type |-> "globe", file |-> None]
ClockIcon == [type |-> "clock", file |-> None]

StandardItem(guid, title, url, icon) ==
    [id |-> guid, text |-> ItemText(title, url), subtext |-> url, icon |-> icon]

\* the locals of the task before the bookmark loop; favicon_path is unbound
LoopStart ==
    [items |-> <<>>, seen |-> {}, favicon_path |-> "unbound", files |-> {},
     exc |-> "none"]

\* the default argument p=favicon_path of the fallback lambda is evaluated when
\* the lambda is made: it raises if no earlier iteration bound favicon_path
FallbackRaises(acc) == acc.favicon_path = "unbound"

\* mutant: the loops without the seen-URL test
SkipNever(seen, url) == FALSE

\* the seen-URL test of both loops
Skip(seen, url) == url \in seen

\* one iteration of `for guid, title, url, url_hash in bookmarks`
BookmarkStep(acc, row, favicons) ==
    IF acc.exc # "none" THEN acc
    ELSE IF Skip(acc.seen, row.url) THEN acc
    ELSE LET seen == acc.seen \cup {row.url}
             favicon_data == DictGet(favicons, row.url_hash)
         IN IF Truthy(favicon_data)
            THEN [acc EXCEPT
                    !.seen = seen,
                    !.favicon_path = row.guid,
                    !.files = @ \cup {row.guid},
                    !.items = Append(@, StandardItem(row.guid, row.title, row.url,
                                                     FaviconIcon(row.guid)))]
            ELSE IF FallbackRaises(acc)
            THEN [acc EXCEPT !.seen = seen, !.exc = "UnboundLocalError"]
            ELSE [acc EXCEPT
                    !.seen = seen,
                    !.items = Append(@, StandardItem(row.guid, row.title, row.url,
                                                     GlobeIcon))]

RECURSIVE BookmarkFold(_, _, _, _)
BookmarkFold(acc, bookmarks, i, favicons) ==
    IF i > Len(bookmarks) THEN acc
    ELSE BookmarkFold(BookmarkStep(acc, bookmarks[i], favicons), bookmarks, i + 1,
                      favicons)

BookmarkLoop(bookmarks, favicons) == BookmarkFold(LoopStart, bookmarks, 1, favicons)

\* one iteration of `for guid, title, url in history`
HistoryStep(acc, row) ==
    IF Skip(acc.seen, row.url) THEN acc
    ELSE [acc EXCEPT
            !.seen = @ \cup {row.url},
            !.items = Append(@, StandardItem(row.guid, row.title, row.url, ClockIcon))]

RECURSIVE HistoryFold(_, _, _)
HistoryFold(acc, history, i) ==
    IF i > Len(history) THEN acc
    ELSE HistoryFold(HistoryStep(acc, history[i]), history, i + 1)

HistoryLoop(acc, history) == HistoryFold(acc, history, 1)

\* lines 263-321 on given extractor outputs: the list handed to setIndexItems,
\* or the exception that ended the task before it
BuildIndex(bookmarks, favicons, indexHistory, history) ==
    LET b == BookmarkLoop(bookmarks, favicons)
    IN IF b.exc # "none" THEN b
       ELSE IF indexHistory THEN HistoryLoop(b, history)
       ELSE b

\* ------------------------------------------------------- profile locator

\* a section of profiles.ini: its name, its Path key (None if it has none), and
\* whether <root>/<Path>/places.sqlite and favicons.sqlite exist
Section(name, path, places, favicons) ==
    [name |-> name, path |-> path, places |-> places, favicons |-> favicons]

SectionSet ==
    {Section("General", None, FALSE, FALSE), Section("General", "pA", TRUE, TRUE),
     Section("Profile0", None, FALSE, FALSE)}
    \cup {Section("Profile0", p, pl, fv) : p \in Profiles, pl \in BOOLEAN, fv \in BOOLEAN}

\* section.startswith("Profile")
StartsWithProfile(name) == name = "Profile0"

\* root: firefox_root.exists(); ini: whether config.read(profiles.ini) raises
Envs ==
    [root : BOOLEAN, ini : {"ok", "raises"}, sections : SeqsUpTo(SectionSet, MaxSections)]

\* the stored settings: None when the key was never written
Configs ==
    [current_profile_path : Profiles \cup {None}, index_history : {"True", "False", None}]

\* how the store holds a bool
BoolStr(b) == IF b THEN "True" ELSE "False"

\* the test of lines 37-41 on one section
IsValidProfile(sec) ==
    StartsWithProfile(sec.name) /\ sec.path # None /\ sec.places /\ sec.favicons

RECURSIVE CollectProfiles(_, _)
CollectProfiles(sections, i) ==
    IF i > Len(sections) THEN <<>>
    ELSE IF IsValidProfile(sections[i])
         THEN <<sections[i].path>> \o CollectProfiles(sections, i + 1)
         ELSE CollectProfiles(sections, i + 1)

get_available_profiles(e) ==
    IF ~e.root THEN <<>>
    ELSE IF e.ini = "raises" THEN <<>>
    ELSE CollectProfiles(e.sections, 1)

\* ------------------------------------------------------------ the threads

Workers == 1..MaxRuns

\* a Thread object that was never started and the (unset) locals of its task
Fresh ==
    [pc |-> "unstarted", phase |-> "none", places_db |-> None, favicons_db |-> None,
     startProfile |-> None, startFlag |-> FALSE,
     bookmarks |-> <<>>, favicons |-> EmptyDict, history |-> <<>>,
     flagRead |-> FALSE, usedFlag |-> FALSE, acc |-> LoopStart,
     pending |-> "none", exc |-> "none", bmFailed |-> FALSE, histFailed |-> FALSE]

\* a thread whose task has returned ("done") or raised ("crashed"); its locals
\* are gone
Finished(pc, exc) == [Fresh EXCEPT !.pc = pc, !.exc = exc]

\* Thread.is_alive()
Alive(w) == w.pc \notin {"unstarted", "done", "crashed", "collected"}

AliveSet == {w \in Workers : Alive(workers[w])}

\* no setIndexItems call yet. Of the last call: the run that made it, the profile
\* and the flag it had read, which of its reads had failed, and how many items
\* the list it replaced held
NoInstall ==
    [by |-> 0, profile |-> None, flag |-> FALSE, bmFailed |-> FALSE, histFailed |-> FALSE,
     over |-> 0]

NotBuilt == [items |-> <<>>, seen |-> {}, favicon_path |-> "unbound", files |-> {},
             exc |-> "not built"]

NoInput == [bookmarks |-> <<>>, favicons |-> EmptyDict, history |-> <<>>, flag |-> FALSE]

\* the profiles.ini of a user with the two profiles pA and pB
DefaultEnv ==
    [root |-> TRUE, ini |-> "ok",
     sections |-> <<Section("Profile0", "pA", TRUE, TRUE),
                    Section("Profile0", "pB", TRUE, TRUE)>>]

\* ----------------------------------------------------- plugin construction

\* mutant: construction without the RuntimeError of line 174; with no profile the
\* plugin is loaded with no profile selected
ConstructLenient ==
    /\ plugin = "unconstructed"
    /\ LET found == get_available_profiles(env)
           hist == config.index_history = "True"
       IN /\ profiles' = found
          /\ plugin' = "loaded"
          /\ flag' = hist
          /\ IF found = <<>>
             THEN /\ profile' = None
                  /\ config' = [config EXCEPT !.index_history = BoolStr(hist)]
             ELSE LET cur == IF config.current_profile_path \in Range(found)
                             THEN config.current_profile_path
                             ELSE found[1]
                  IN /\ profile' = cur
                     /\ config' = [current_profile_path |-> cur,
                                   index_history |-> BoolStr(hist)]
    /\ UNCHANGED <<env, thread, mainpc, recent, ntrig, workers, index, installed, cache,
                   tempDirs, openConns, bIn, bOut>>

\* Plugin.__init__ on a supported platform
Construct ==
    /\ plugin = "unconstructed"
    /\ LET found == get_available_profiles(env)
       IN /\ profiles' = found
          /\ IF found = <<>>
             THEN \* raise RuntimeError("No Firefox profiles found")
                  /\ plugin' = "failed"
                  /\ UNCHANGED <<profile, flag, config>>
             ELSE LET cur == IF config.current_profile_path \in Range(found)
                             THEN config.current_profile_path
                             ELSE found[1]
                      hist == config.index_history = "True"
                  IN /\ plugin' = "loaded"
                     /\ profile' = cur
                     /\ flag' = hist
                     /\ config' = [current_profile_path |-> cur,
                                   index_history |-> BoolStr(hist)]
    /\ UNCHANGED <<env, thread, mainpc, recent, ntrig, workers, index, installed, cache,
                   tempDirs, openConns, bIn, bOut>>

\* ------------------------------------------------------- the main thread

Last2(s) == IF Len(s) > 2 THEN SubSeq(s, Len(s) - 1, Len(s)) ELSE s

\* a trigger enters updateIndexItems
Trigger(kind) ==
    /\ mainpc' = "update"
    /\ recent' = Last2(Append(recent, kind))
    /\ ntrig' = ntrig + 1

CanTrigger == plugin = "loaded" /\ mainpc = "ready" /\ thread < MaxRuns

\* the host calls updateIndexItems (at startup)
HostUpdate ==
    /\ CanTrigger
    /\ Trigger("host")
    /\ UNCHANGED <<plugin, env, profiles, profile, flag, config, thread, workers, index,
                   installed, cache, tempDirs, openConns, bIn, bOut>>

\* the current_profile_path setter, up to its call of updateIndexItems
SetProfile(value) ==
    /\ CanTrigger
    /\ profile' = value
    /\ config' = [config EXCEPT !.current_profile_path = value]
    /\ Trigger("profile")
    /\ UNCHANGED <<plugin, env, profiles, flag, thread, workers, index, installed, cache,
                   tempDirs, openConns, bIn, bOut>>

\* the index_history setter, up to its call of updateIndexItems
SetHistory(value) ==
    /\ CanTrigger
    /\ flag' = value
    /\ config' = [config EXCEPT !.index_history = BoolStr(value)]
    /\ Trigger("history")
    /\ UNCHANGED <<plugin, env, profiles, profile, thread, workers, index, installed,
                   cache, tempDirs, openConns, bIn, bOut>>

\* mutant: updateIndexItems without the join
NoJoin == TRUE

\* `if self.thread and self.thread.is_alive(): self.thread.join()` has returned
JoinReturns == IF thread = 0 THEN TRUE ELSE ~Alive(workers[thread])

\* updateIndexItems past the join: a new Thread replaces self.thread and starts;
\* the finished Thread object it replaces is no longer referenced
UpdateIndexItems ==
    /\ mainpc = "update"
    /\ JoinReturns
    /\ thread' = thread + 1
    /\ workers' = [w \in Workers |->
                     IF w = thread + 1 THEN [Fresh EXCEPT !.pc = "start"]
                     ELSE IF w = thread /\ ~Alive(workers[w]) THEN Finished("collected", "none")
                     ELSE workers[w]]
    /\ mainpc' = "ready"
    /\ UNCHANGED <<plugin, env, profiles, profile, flag, config, recent, ntrig, index,
                   installed, cache, tempDirs, openConns, bIn, bOut>>

\* ------------------------------------------- the task: update_index_items_task

Others == <<plugin, env, profiles, profile, flag, config, thread, mainpc, recent, ntrig,
            bIn, bOut>>

\* line 247: places_db is built from the profile the task reads now
TaskStart(w) ==
    /\ workers[w].pc = "start"
    /\ workers' = [workers EXCEPT ![w] =
                     [@ EXCEPT !.pc = "favdb", !.places_db = profile,
                               !.startProfile = profile, !.startFlag = flag]]
    /\ UNCHANGED <<Others, index, installed, cache, tempDirs, openConns>>

\* line 248: favicons_db reads the profile again; get_bookmarks is entered
TaskFaviconsDb(w) ==
    /\ workers[w].pc = "favdb"
    /\ workers' = [workers EXCEPT ![w] =
                     [@ EXCEPT !.pc = "enter", !.phase = "bookmarks",
                               !.favicons_db = profile]]
    /\ UNCHANGED <<Others, index, installed, cache, tempDirs, openConns>>

\* ---- get_connection, entered by the extractor named in phase

\* mutant: cleanup after the yield only, not in finally blocks
OnErrorNoFinally(stage) == "exit"

\* where control goes when a statement of get_connection raises: the finally
\* blocks that enclose it
OnError(stage) ==
    CASE stage = "copy" -> "rmtree"
      [] stage = "connect" -> "rmtree"
      [] stage = "checkpoint" -> "close"
      [] stage = "body" -> "close"

\* lines 57-62: the existence test, then mkdtemp
ConnEnter(w) ==
    /\ workers[w].pc = "enter"
    /\ \E exists \in BOOLEAN :
         IF exists
         THEN /\ tempDirs' = tempDirs \cup {w}
              /\ workers' = [workers EXCEPT ![w].pc = "copy"]
         ELSE /\ tempDirs' = tempDirs
              /\ workers' = [workers EXCEPT ![w] =
                               [@ EXCEPT !.pc = "exit", !.pending = "FileNotFoundError"]]
    /\ UNCHANGED <<Others, index, installed, cache, openConns>>

\* lines 66-69: copy the database and its -wal and -shm files
ConnCopy(w) ==
    /\ workers[w].pc = "copy"
    /\ \E ok \in BOOLEAN :
         workers' = [workers EXCEPT ![w] =
                       IF ok THEN [@ EXCEPT !.pc = "connect"]
                       ELSE [@ EXCEPT !.pc = OnError("copy"), !.pending = "OSError"]]
    /\ UNCHANGED <<Others, index, installed, cache, tempDirs, openConns>>

\* lines 72-73: sqlite3.connect
ConnConnect(w) ==
    /\ workers[w].pc = "connect"
    /\ \E ok \in BOOLEAN :
         IF ok
         THEN /\ openConns' = openConns \cup {w}
              /\ workers' = [workers EXCEPT ![w].pc = "checkpoint"]
         ELSE /\ openConns' = openConns
              /\ workers' = [workers EXCEPT ![w] =
                               [@ EXCEPT !.pc = OnError("connect"),
                                         !.pending = "sqlite3.Error"]]
    /\ UNCHANGED <<Others, index, installed, cache, tempDirs>>

\* line 77: PRAGMA wal_checkpoint(TRUNCATE)
ConnCheckpoint(w) ==
    /\ workers[w].pc = "checkpoint"
    /\ \E ok \in BOOLEAN :
         workers' = [workers EXCEPT ![w] =
                       IF ok THEN [@ EXCEPT !.pc = "body"]
                       ELSE [@ EXCEPT !.pc = OnError("checkpoint"),
                                      !.pending = "sqlite3.Error"]]
    /\ UNCHANGED <<Others, index, installed, cache, tempDirs, openConns>>

\* what the databases of the selected profile may hold when a run queries them
BookmarkTables ==
    LET b1 == [guid |-> "g1", title |-> "T", url |-> "u1", url_hash |-> "h1"]
        b2 == [guid |-> "g2", title |-> "", url |-> "u2", url_hash |-> "h2"]
    IN {<<b1, b2>>, <<b2>>}

FaviconTables == {[h \in {"h1"} |-> "png"], EmptyDict}

HistoryTables == {<<[guid |-> "g3", title |-> None, url |-> "u1"]>>}

\* line 79, the body of the extractor's `with`: the query and fetchall
ConnBody(w) ==
    /\ workers[w].pc = "body"
    /\ \/ /\ workers[w].phase = "bookmarks"
          /\ \E rows \in BookmarkTables :
               workers' = [workers EXCEPT ![w] = [@ EXCEPT !.pc = "close", !.bookmarks = rows]]
       \/ /\ workers[w].phase = "favicons"
          /\ \E d \in FaviconTables :
               workers' = [workers EXCEPT ![w] = [@ EXCEPT !.pc = "close", !.favicons = d]]
       \/ /\ workers[w].phase = "history"
          /\ \E rows \in HistoryTables :
               workers' = [workers EXCEPT ![w] = [@ EXCEPT !.pc = "close", !.history = rows]]
       \/ workers' = [workers EXCEPT ![w] =
                        [@ EXCEPT !.pc = OnError("body"), !.pending = "sqlite3.Error"]]
    /\ UNCHANGED <<Others, index, installed, cache, tempDirs, openConns>>

\* lines 80-81: finally conn.close()
ConnClose(w) ==
    /\ workers[w].pc = "close"
    /\ openConns' = openConns \ {w}
    /\ workers' = [workers EXCEPT ![w].pc = "rmtree"]
    /\ UNCHANGED <<Others, index, installed, cache, tempDirs>>

\* lines 82-84: finally shutil.rmtree(temp_dir)
ConnRmtree(w) ==
    /\ workers[w].pc = "rmtree"
    /\ tempDirs' = tempDirs \ {w}
    /\ workers' = [workers EXCEPT ![w].pc = "exit"]
    /\ UNCHANGED <<Others, index, installed, cache, openConns>>

\* ---- the extractors around it

\* `except sqlite3.Error` of get_bookmarks, get_history and get_favicons_data
Caught(exc) == exc = "sqlite3.Error"

\* the statement of the task that follows each extractor
AfterExtractor(phase) ==
    CASE phase = "bookmarks" -> "clear"
      [] phase = "favicons" -> "loop"
      [] phase = "history" -> "install"

\* the extractor leaves its `with`: it returns the rows, or logs a caught error
\* and returns an empty result, or lets the error go on into the task
ExtractorReturn(w) ==
    /\ workers[w].pc = "exit"
    /\ LET me == workers[w]
       IN workers' = [workers EXCEPT ![w] =
            IF me.pending = "none"
            THEN [me EXCEPT !.pc = AfterExtractor(me.phase), !.phase = "none"]
            ELSE IF Caught(me.pending)
            THEN [me EXCEPT !.pc = AfterExtractor(me.phase), !.phase = "none",
                            !.pending = "none",
                            !.bookmarks = IF me.phase = "bookmarks" THEN <<>> ELSE @,
                            !.favicons = IF me.phase = "favicons" THEN EmptyDict ELSE @,
                            !.history = IF me.phase = "history" THEN <<>> ELSE @,
                            !.bmFailed = IF me.phase = "bookmarks" THEN TRUE ELSE @,
                            !.histFailed = IF me.phase = "history" THEN TRUE ELSE @]
            ELSE Finished("crashed", me.pending)]
    /\ UNCHANGED <<Others, index, installed, cache, tempDirs, openConns>>

\* ---- the rest of the task

\* lines 253-259: drop the existing favicon files; get_favicons_data is entered
ClearCache(w) ==
    /\ workers[w].pc = "clear"
    /\ cache' = {}
    /\ workers' = [workers EXCEPT ![w] = [@ EXCEPT !.pc = "enter", !.phase = "favicons"]]
    /\ UNCHANGED <<Others, index, installed, tempDirs, openConns>>

\* lines 263-296: the bookmark loop, which writes the favicon files
BookmarkLoopStep(w) ==
    /\ workers[w].pc = "loop"
    /\ LET acc == BookmarkLoop(workers[w].bookmarks, workers[w].favicons)
       IN /\ cache' = cache \cup acc.files
          /\ workers' = [workers EXCEPT ![w] =
                           IF acc.exc # "none" THEN Finished("crashed", acc.exc)
                           ELSE [@ EXCEPT !.pc = "flag", !.acc = acc]]
    /\ UNCHANGED <<Others, index, installed, tempDirs, openConns>>

\* line 298: the task reads self._index_history; get_history is entered if set
ReadFlag(w) ==
    /\ workers[w].pc = "flag"
    /\ workers' = [workers EXCEPT ![w] =
                     IF flag
                     THEN [@ EXCEPT !.pc = "enter", !.phase = "history",
                                    !.flagRead = TRUE, !.usedFlag = TRUE]
                     ELSE [@ EXCEPT !.pc = "install",
                                    !.flagRead = TRUE, !.usedFlag = FALSE]]
    /\ UNCHANGED <<Others, index, installed, cache, tempDirs, openConns>>

\* mutant: a run with a failed read returns without calling setIndexItems
InstallUnlessFailed(w) ==
    /\ workers[w].pc = "install"
    /\ LET me == workers[w]
           out == IF me.usedFlag THEN HistoryLoop(me.acc, me.history) ELSE me.acc
       IN IF me.bmFailed \/ me.histFailed
          THEN UNCHANGED <<index, installed>>
          ELSE /\ index' = out.items
               /\ installed' = [by |-> w, profile |-> me.places_db, flag |-> me.usedFlag,
                                bmFailed |-> me.bmFailed, histFailed |-> me.histFailed,
                                over |-> Len(index)]
    /\ workers' = [workers EXCEPT ![w] = Finished("done", "none")]
    /\ UNCHANGED <<plugin, env, profiles, profile, flag, config, thread, mainpc, recent,
                   ntrig, bIn, bOut, cache, tempDirs, openConns>>

\* lines 301-321: the history loop (if history is indexed), then setIndexItems
Install(w) ==
    /\ workers[w].pc = "install"
    /\ LET me == workers[w]
           out == IF me.usedFlag THEN HistoryLoop(me.acc, me.history) ELSE me.acc
       IN /\ index' = out.items
          /\ installed' = [by |-> w, profile |-> me.places_db, flag |-> me.usedFlag,
                           bmFailed |-> me.bmFailed, histFailed |-> me.histFailed,
                           over |-> Len(index)]
    /\ workers' = [workers EXCEPT ![w] = Finished("done", "none")]
    /\ UNCHANGED <<Others, cache, tempDirs, openConns>>

\* ------------------------------------------------------- specifications

Quiet ==
    /\ thread = 0 /\ mainpc = "ready" /\ recent = <<>> /\ ntrig = 0
    /\ workers = [w \in Workers |-> Fresh]
    /\ index = <<>> /\ installed = NoInstall /\ cache = {}
    /\ tempDirs = {} /\ openConns = {}

\* the plugin after a successful construction
Init ==
    /\ plugin = "loaded"
    /\ env = DefaultEnv
    /\ profiles = get_available_profiles(env)
    /\ profile \in Range(profiles)
    /\ flag \in BOOLEAN
    /\ config = [current_profile_path |-> profile, index_history |-> BoolStr(flag)]
    /\ Quiet
    /\ bIn = NoInput /\ bOut = NotBuilt

Next ==
    \/ HostUpdate
    \/ \E value \in Range(profiles) : SetProfile(value)
    \/ \E value \in BOOLEAN : SetHistory(value)
    \/ UpdateIndexItems
    \/ \E w \in Workers :
         \/ TaskStart(w)
         \/ TaskFaviconsDb(w)
         \/ ConnEnter(w)
         \/ ConnCopy(w)
         \/ ConnConnect(w)
         \/ ConnCheckpoint(w)
         \/ ConnBody(w)
         \/ ConnClose(w)
         \/ ConnRmtree(w)
         \/ ExtractorReturn(w)
         \/ ClearCache(w)
         \/ BookmarkLoopStep(w)
         \/ ReadFlag(w)
         \/ Install(w)

Spec == Init /\ [][Next]_vars

\* ---- plugin construction on any profiles.ini and any stored settings

InitConstruct ==
    /\ plugin = "unconstructed"
    /\ env \in Envs
    /\ config \in Configs
    /\ profiles = <<>> /\ profile = None /\ flag = FALSE
    /\ Quiet
    /\ bIn = NoInput /\ bOut = NotBuilt

NextConstruct == Construct

SpecConstruct == InitConstruct /\ [][NextConstruct]_vars

\* ---- the index builder on any extractor outputs

BuildInputs ==
    [bookmarks : SeqsUpTo(BookmarkRows, MaxRows), favicons : FaviconDicts,
     history : SeqsUpTo(HistoryRows, MaxRows), flag : BOOLEAN]

InitBuild ==
    /\ plugin = "loaded"
    /\ env = DefaultEnv
    /\ profiles = get_available_profiles(env)
    /\ profile = profiles[1]
    /\ flag = FALSE
    /\ config = [current_profile_path |-> profile, index_history |-> BoolStr(flag)]
    /\ Quiet
    /\ bIn \in BuildInputs
    /\ bOut = NotBuilt

\* lines 263-321 applied to the inputs
Build ==
    /\ bOut = NotBuilt
    /\ bOut' = BuildIndex(bIn.bookmarks, bIn.favicons, bIn.flag, bIn.history)
    /\ UNCHANGED <<plugin, env, profiles, profile, flag, config, thread, mainpc, recent,
                   ntrig, workers, index, installed, cache, tempDirs, openConns, bIn>>

NextBuild == Build

SpecBuild == InitBuild /\ [][NextBuild]_vars

\* ================================================================ claims

\* C1: at most one thread running update_index_items_task is alive at any time,
\* and it is the one self.thread names; every trigger that has left
\* updateIndexItems has started exactly one thread, and a trigger still inside it
\* (blocked in join while a thread runs) has started none yet.
C1_SingleFlight ==
    /\ Cardinality(AliveSet) <= 1
    /\ \A w \in Workers : Alive(workers[w]) => w = thread
    /\ \A w \in Workers : (w < thread) => workers[w].pc = "collected"
    /\ ntrig = thread + (IF mainpc = "update" THEN 1 ELSE 0)

\* a second thread runs after the first was joined, and a third trigger is
\* blocked on it
C1_Witness ==
    /\ thread = 2
    /\ Alive(workers[2])
    /\ workers[1].pc = "collected"
    /\ mainpc = "update"
    /\ ntrig = 3

\* C2: the paths and the history flag one run uses are the configuration values
\* that held when the run started.
C2_ReadsAtRunStart ==
    \A w \in Workers :
        LET me == workers[w]
        IN /\ (me.places_db # None) => me.places_db = me.startProfile
           /\ (me.favicons_db # None) => me.favicons_db = me.startProfile
           /\ me.flagRead => me.usedFlag = me.startFlag

\* C3: after a profile change immediately followed by a history-flag change, once
\* no thread runs the installed index was produced by the later run from the
\* final profile and the final flag.
C3_BackToBackFinal ==
    (/\ recent = <<"profile", "history">>
     /\ mainpc = "ready"
     /\ AliveSet = {})
    => /\ installed.by = thread
       /\ installed.profile = profile
       /\ installed.flag = flag

\* C5: no thread's task is ended by an exception of an extractor: whatever fails
\* in get_connection or in the query, the extractor returns an empty result.
C5_ExtractorFailuresContained ==
    \A w \in Workers : workers[w].exc \notin {"FileNotFoundError", "OSError", "sqlite3.Error"}

\* C6: once get_connection's context has been left, on any path, the temporary
\* directory it made is deleted and the connection it opened is closed; the
\* connection is closed before the directory is removed.
C6_ResourcesReleased ==
    \A w \in Workers :
        /\ (workers[w].pc \notin {"copy", "connect", "checkpoint", "body", "close", "rmtree"})
              => (w \notin tempDirs /\ w \notin openConns)
        /\ (workers[w].pc = "rmtree") => w \notin openConns

\* the history extractor has left the context after the query raised
C6_Witness ==
    \E w \in Workers :
        /\ workers[w].pc = "exit"
        /\ workers[w].phase = "history"
        /\ workers[w].pending = "sqlite3.Error"
        /\ w \notin tempDirs
        /\ w \notin openConns

InstallStep(w) == workers[w].pc = "install" /\ workers'[w].pc = "done"

\* C7 as claimed: a run whose bookmark or history read failed leaves the
\* installed index as it was.
C7_FailedRefreshKeepsIndex ==
    [][\A w \in Workers :
         (InstallStep(w) /\ (workers[w].bmFailed \/ workers[w].histFailed))
            => index' = index]_vars

\* C7 amended: a run whose bookmark or history read failed with a database error
\* still calls setIndexItems, with the list built from what was read: no bookmark
\* item if the bookmark read failed, no history item if the history read failed
\* or history is not indexed; and the index changes only by such a call.
C7_FailedReadReplacesIndex ==
    [][/\ \A w \in Workers :
            InstallStep(w) =>
              /\ workers[w].bmFailed =>
                    \A i \in 1..Len(index') : index'[i].icon.type = "clock"
              /\ (workers[w].histFailed \/ ~workers[w].usedFlag) =>
                    \A i \in 1..Len(index') : index'[i].icon.type # "clock"
              /\ installed'.by = w
       /\ (index' # index) => \E w \in Workers : InstallStep(w)]_vars

\* a run whose bookmark read failed has replaced a non-empty index by the empty
\* list
C7_Witness ==
    /\ installed.by > 0
    /\ installed.bmFailed
    /\ installed.over > 0
    /\ index = <<>>

\* C10: whenever no thread runs, every installed item whose icon reads
\* favicon_<guid>.png has that file in the favicons directory.
C10_CachedFaviconsPresent ==
    (AliveSet = {}) =>
        \A i \in 1..Len(index) :
            (index[i].icon.type = "favicon") => index[i].icon.file \in cache

\* ---- claims about plugin construction (SpecConstruct)

NoProfiles == ~env.root \/ get_available_profiles(env) = <<>>

\* C9 as claimed: with no Firefox root or no valid profile the construction
\* succeeds and the plugin is loaded with an empty index.
C9_ConstructionNeverFails ==
    (plugin # "unconstructed" /\ NoProfiles) => (plugin = "loaded" /\ index = <<>>)

\* C9 amended: with no Firefox root or no valid profile the construction raises:
\* no plugin is loaded, no profile is selected, nothing is written to the
\* configuration store beyond what it held, no thread is started and no index is
\* installed; with a valid profile the plugin is loaded with a profile of the list.
C9_NoProfilesRaises ==
    (plugin # "unconstructed") =>
        /\ NoProfiles <=> plugin = "failed"
        /\ (plugin = "failed") =>
              (profile = None /\ thread = 0 /\ index = <<>> /\ AliveSet = {})
        /\ (plugin = "loaded") =>
              (profile \in Range(profiles) /\ config.current_profile_path = profile)

\* the root exists and profiles.ini lists a profile, but its favicons database is
\* missing: construction has raised
C9_Witness ==
    /\ plugin = "failed"
    /\ env.root
    /\ env.ini = "ok"
    /\ \E i \in 1..Len(env.sections) :
          /\ StartsWithProfile(env.sections[i].name)
          /\ env.sections[i].path # None
          /\ env.sections[i].places
          /\ ~env.sections[i].favicons

\* ---- claims about the index builder (SpecBuild)

Built == bOut # NotBuilt

ItemsWithUrl(items, u) == {i \in 1..Len(items) : items[i].subtext = u}

FirstWithUrl(rows, u) ==
    rows[CHOOSE i \in 1..Len(rows) :
            /\ rows[i].url = u
            /\ \A j \in 1..(i - 1) : rows[j].url # u]

\* C4: in a list passed to setIndexItems no two items have the same URL, and a
\* URL that is both in the bookmark rows and in the history rows has exactly one
\* item: the one made of the first bookmark row with that URL.
C4_OneItemPerUrl ==
    (Built /\ bOut.exc = "none") =>
        /\ \A i, j \in 1..Len(bOut.items) :
              (bOut.items[i].subtext = bOut.items[j].subtext) => i = j
        /\ \A u \in URLs :
              ((\E i \in 1..Len(bIn.bookmarks) : bIn.bookmarks[i].url = u)
                 /\ (\E i \in 1..Len(bIn.history) : bIn.history[i].url = u))
              => /\ Cardinality(ItemsWithUrl(bOut.items, u)) = 1
                 /\ \A i \in ItemsWithUrl(bOut.items, u) :
                       LET first == FirstWithUrl(bIn.bookmarks, u)
                       IN /\ bOut.items[i].id = first.guid
                          /\ bOut.items[i].text = ItemText(first.title, u)
                          /\ bOut.items[i].icon.type # "clock"

\* two bookmark rows and a history row share one URL, history is indexed, and a
\* list was built
C4_Witness ==
    /\ Built
    /\ bOut.exc = "none"
    /\ bIn.flag
    /\ Len(bIn.bookmarks) = 2
    /\ bIn.bookmarks[1].url = bIn.bookmarks[2].url
    /\ bIn.bookmarks[1].guid # bIn.bookmarks[2].guid
    /\ \E i \in 1..Len(bIn.history) : bIn.history[i].url = bIn.bookmarks[1].url
    /\ Len(bOut.items) >= 1

\* C8: a bookmark row without favicon data, at any position, gets an item with
\* the fallback icon, and the build goes on to the end of the list.
C8_MissingFaviconFallsBack ==
    Built =>
        /\ bOut.exc = "none"
        /\ \A u \in URLs :
              (\E i \in 1..Len(bIn.bookmarks) : bIn.bookmarks[i].url = u)
              => \E i \in ItemsWithUrl(bOut.items, u) :
                    LET first == FirstWithUrl(bIn.bookmarks, u)
                    IN bOut.items[i].icon.type =
                         (IF Truthy(DictGet(bIn.favicons, first.url_hash))
                          THEN "favicon" ELSE "globe")

====
